---- MODULE Spec2Model ----
(***************************************************************************)
(* Model of SCAutolib/models/card.py: the Card base class (URI resolution) *)
(* and VirtualCard (create, enroll, insert, remove, the context manager).  *)
(* One VirtualCard object, its files and its backend are the state; every  *)
(* external command is a step whose exit status the environment chooses.   *)
(***************************************************************************)
EXTENDS Integers, Sequences, FiniteSets, TLC

\* ---------------------------------------------------------------- bounds
\* lines in the output of "p11tool --list-token-urls"
MaxLines == 2
\* tokens in one line of that output
MaxLineLen == 1
\* insert()/remove() calls in the body of a caller's "with card:" block
MaxBody == 2

\* ---------------------------------------------------------------- values
\* uri: str = None
NoUri == <<"None">>
\* the literal part of VirtualCard._pattern, up to "serial="
Prefix == "pkcs11:model=PKCS%2315%20emulated;manufacturer=Common%20Access%20Card;serial="
\* any other text of a line
Other == "0"
Alphabet == {Prefix, Other}

NoExc == "none"

RECURSIVE SeqsUpTo(_, _)
SeqsUpTo(S, n) ==
    IF n = 0 THEN {<<>>}
    ELSE LET shorter == SeqsUpTo(S, n - 1)
         IN  shorter \cup {Append(s, x) : s \in {t \in shorter : Len(t) = n - 1}, x \in S}

\* what the token enumeration can print: lines of text
Lines == SeqsUpTo(Alphabet, MaxLineLen)
Outputs == SeqsUpTo(Lines, MaxLines)

\* ---------------------------------------------------------------- run()
\* run(cmd, env, check): with check true a non-zero exit is raised
Run(exitOk, check) == IF check /\ ~exitOk THEN "CalledProcessError" ELSE "ok"
\* the value of check at a call site that passes none
CheckDefault == FALSE

\* the check argument at each call site of card.py
EnumCheck == CheckDefault
InsertCheckOff == FALSE
InsertCheck == TRUE
RemoveCheckOff == FALSE
RemoveCheck == TRUE
UploadKeyCheck == CheckDefault
UploadCertCheck == CheckDefault
InitTokenCheckOff == FALSE
InitTokenCheck == TRUE
DbCreateCheck == TRUE
ListCheck == CheckDefault
AddCheck == CheckDefault
ReloadCheck == CheckDefault

\* ---------------------------------------------------------------- pure parts
\* Path.mkdir(exist_ok=...)
Mkdir(exists, existOk) == IF exists /\ ~existOk THEN "FileExistsError" ELSE "ok"
TokensExistOkOn == TRUE
\* Path(f"{card_dir}/tokens").mkdir()
TokensExistOk == FALSE
\* self._nssdb.mkdir(exist_ok=True)
NssdbExistOk == TRUE

\* position of the first occurrence of the pattern's literal in a line, 0 if none
FirstPrefix(line) ==
    IF \E i \in 1..Len(line) : line[i] = Prefix
    THEN CHOOSE i \in 1..Len(line) :
            line[i] = Prefix /\ \A j \in 1..(i - 1) : line[j] # Prefix
    ELSE 0

\* re.findall(self._pattern, out): "serial=.*" runs to the end of the line,
\* so a line gives at most one match, from the first literal to the line's end
RECURSIVE FindAll(_)
FindAll(out) ==
    IF out = <<>> THEN <<>>
    ELSE LET line == Head(out)
             p == FirstPrefix(line)
         IN  (IF p = 0 THEN <<>> ELSE <<SubSeq(line, p, Len(line))>>)
                \o FindAll(Tail(out))

SetUriAssertAtLeastOne(n) == n >= 1
\* assert len(urls) == 1
SetUriAssert(n) == n = 1

CreateAssertConfOff(exists) == TRUE
\* assert self._softhsm2_conf.exists()
CreateAssertConf(exists) == exists

EnterAssertOff(exists) == TRUE
\* assert self._service_location.exists()
EnterAssert(exists) == exists

EnterCallsInsertNever(flag) == FALSE
EnterCallsInsertAlways(flag) == TRUE
\* __enter__: if self._insert: self.insert()
EnterCallsInsert(flag) == flag

ExitCallsRemoveOnSuccess(e) == e = NoExc
ExitCallsRemoveOnError(e) == e # NoExc
\* __exit__: self.remove() is outside the "if exp_type is not None"
ExitCallsRemove(e) == TRUE

ExitReturnTrue == TRUE
\* __exit__ has no return statement: it returns None, which is false
ExitReturn == FALSE

\* ---------------------------------------------------------------- state
VARIABLES
    insertFlag,   \* self._insert
    confExists,   \* self._softhsm2_conf.exists()
    tokensDir,    \* <card_dir>/tokens exists
    tokenLabel,   \* the backend holds a token labelled with the username
    nssdbDir,     \* self._nssdb exists
    dbCreated,    \* modutil -create succeeded in self._nssdb
    serviceFile,  \* self._service_location exists
    keyObj,       \* the private key object is on the token
    certObj,      \* the certificate object is on the token
    running,      \* the service virt-sc-<username> is started
    inserted,     \* the last insert()/remove() that returned was insert()
    uri,          \* self.uri
    op,           \* the method the caller invoked last
    pc,           \* position inside that method, "idle" once it has ended
    exc,          \* the exception raised inside the with block, if any
    result,       \* how the method ended: "ok" or the exception it raised
    trace,        \* the steps the method has executed: <<step, succeeded>>
    entered,      \* __enter__ returned
    exitRemoves,  \* remove() calls made by __exit__ in this method
    logged,       \* __exit__ logged an exception
    stdout,       \* the output _set_uri read, until the with block is left
    bodyLeft,     \* calls the with body may still make
    created,      \* create() has returned normally
    enrolled,     \* enroll() has returned normally
    createFailed  \* create() has raised

files == <<tokensDir, nssdbDir, serviceFile, confExists>>
backend == <<tokenLabel, dbCreated, keyObj, certObj>>
presence == <<running, inserted>>
scope == <<exc, entered, exitRemoves, logged, stdout, bodyLeft>>
history == <<created, enrolled, createFailed>>
vars == <<insertFlag, files, backend, presence, uri, op, pc, result, trace,
          scope, history>>

\* the object after __init__ (card_dir exists, or the constructor asserts);
\* a missing configuration file is only warned about
Init ==
    /\ insertFlag \in BOOLEAN
    /\ confExists \in BOOLEAN
    /\ tokensDir = FALSE /\ tokenLabel = FALSE
    /\ nssdbDir = FALSE /\ dbCreated = FALSE /\ serviceFile = FALSE
    /\ keyObj = FALSE /\ certObj = FALSE
    /\ running = FALSE /\ inserted = FALSE
    /\ uri = NoUri
    /\ op = "init" /\ pc = "idle" /\ result = "ok" /\ trace = <<>>
    /\ exc = NoExc /\ entered = FALSE /\ exitRemoves = 0 /\ logged = FALSE
    /\ stdout = <<>> /\ bodyLeft = 0
    /\ created = FALSE /\ enrolled = FALSE /\ createFailed = FALSE

\* the caller invokes method m: what is recorded about the previous call is reset
Begin(m) ==
    /\ pc = "idle"
    /\ op' = m
    /\ exc' = NoExc /\ entered' = FALSE /\ exitRemoves' = 0 /\ logged' = FALSE
    /\ stdout' = <<>> /\ bodyLeft' = MaxBody
    /\ UNCHANGED <<insertFlag, uri, history>>

\* the caller invokes a method of several steps: its first step is at
Call(m, at) ==
    /\ Begin(m)
    /\ pc' = at /\ result' = "none" /\ trace' = <<>>
    /\ UNCHANGED <<files, backend, presence>>

\* one step of the running method: it succeeded and goes on at next, or it
\* raised r and the method ends
Step(name, ok, r, next) ==
    /\ trace' = Append(trace, <<name, ok>>)
    /\ IF r = "ok" THEN pc' = next /\ result' = result
                   ELSE pc' = "idle" /\ result' = r
    /\ UNCHANGED <<insertFlag, op, uri, scope>>

\* ---------------------------------------------------------------- create()
CallCreate == Call("create", "c_assert")

\* a step of create() that ends it with an exception is remembered
CreateRaised ==
    createFailed' = (createFailed \/ (pc' = "idle" /\ result' # "ok"))

CreateAssert ==
    /\ pc = "c_assert"
    /\ Step("assert_conf", CreateAssertConf(confExists),
            IF CreateAssertConf(confExists) THEN "ok" ELSE "AssertionError",
            "c_mkdir")
    /\ UNCHANGED <<files, backend, presence>>
    /\ CreateRaised /\ UNCHANGED <<created, enrolled>>

CreateMkdirTokens ==
    /\ pc = "c_mkdir"
    /\ LET r == Mkdir(tokensDir, TokensExistOk)
       IN  /\ Step("mkdir_tokens", r = "ok", r, "c_token")
           /\ tokensDir' = TRUE
    /\ UNCHANGED <<nssdbDir, serviceFile, confExists, backend, presence>>
    /\ CreateRaised /\ UNCHANGED <<created, enrolled>>

\* softhsm2-util --init-token: the backend rejects a label it already holds
CreateInitToken ==
    /\ pc = "c_token"
    /\ \E envOk \in BOOLEAN :
         LET exitOk == envOk /\ ~tokenLabel
         IN  /\ Step("init_token", exitOk, Run(exitOk, InitTokenCheck), "c_dbdir")
             /\ tokenLabel' = (tokenLabel \/ exitOk)
    /\ UNCHANGED <<files, dbCreated, keyObj, certObj, presence>>
    /\ CreateRaised /\ UNCHANGED <<created, enrolled>>

CreateNssdbDir ==
    /\ pc = "c_dbdir"
    /\ LET r == Mkdir(nssdbDir, NssdbExistOk)
       IN  /\ Step("mkdir_db", r = "ok", r, "c_db")
           /\ nssdbDir' = TRUE
    /\ UNCHANGED <<tokensDir, serviceFile, confExists, backend, presence>>
    /\ CreateRaised /\ UNCHANGED <<created, enrolled>>

CreateDb ==
    /\ pc = "c_db"
    /\ \E exitOk \in BOOLEAN :
         /\ Step("modutil_create", exitOk, Run(exitOk, DbCreateCheck), "c_list")
         /\ dbCreated' = (dbCreated \/ exitOk)
    /\ UNCHANGED <<files, tokenLabel, keyObj, certObj, presence>>
    /\ CreateRaised /\ UNCHANGED <<created, enrolled>>

\* modutil -list, then the test of its output for the proxy library
CreateList ==
    /\ pc = "c_list"
    /\ \E exitOk \in BOOLEAN, listed \in BOOLEAN :
         Step("modutil_list", exitOk, Run(exitOk, ListCheck),
              IF listed THEN "c_service" ELSE "c_add")
    /\ UNCHANGED <<files, backend, presence>>
    /\ CreateRaised /\ UNCHANGED <<created, enrolled>>

CreateAdd ==
    /\ pc = "c_add"
    /\ \E exitOk \in BOOLEAN :
         Step("modutil_add", exitOk, Run(exitOk, AddCheck), "c_service")
    /\ UNCHANGED <<files, backend, presence>>
    /\ CreateRaised /\ UNCHANGED <<created, enrolled>>

CreateService ==
    /\ pc = "c_service"
    /\ Step("write_service", TRUE, "ok", "c_reload")
    /\ serviceFile' = TRUE
    /\ UNCHANGED <<tokensDir, nssdbDir, confExists, backend, presence>>
    /\ CreateRaised /\ UNCHANGED <<created, enrolled>>

\* systemctl daemon-reload is the last statement: create() returns after it
CreateReload ==
    /\ pc = "c_reload"
    /\ \E exitOk \in BOOLEAN :
         LET r == Run(exitOk, ReloadCheck)
         IN  /\ trace' = Append(trace, <<"daemon_reload", exitOk>>)
             /\ pc' = "idle" /\ result' = r
             /\ created' = (created \/ r = "ok")
    /\ CreateRaised
    /\ UNCHANGED <<insertFlag, op, uri, scope, files, backend, presence, enrolled>>

\* ---------------------------------------------------------------- insert(), remove()
\* systemctl start/stop exits non-zero for a unit that has no unit file
StartExit(envOk) == envOk /\ serviceFile
StopExit(envOk) == envOk /\ serviceFile

InsertRes(envOk) == Run(StartExit(envOk), InsertCheck)
RemoveRes(envOk) == Run(StopExit(envOk), RemoveCheck)

\* the effect of insert() on the service and on the card's presence
InsertEffect(envOk) ==
    /\ running' = (running \/ StartExit(envOk))
    /\ inserted' = (IF InsertRes(envOk) = "ok" THEN TRUE ELSE inserted)

RemoveEffect(envOk) ==
    /\ running' = (running /\ ~StopExit(envOk))
    /\ inserted' = (IF RemoveRes(envOk) = "ok" THEN FALSE ELSE inserted)

\* card.insert() called by the caller
Insert ==
    /\ Begin("insert") /\ pc' = "idle"
    /\ UNCHANGED <<files, backend>>
    /\ \E envOk \in BOOLEAN :
         /\ InsertEffect(envOk)
         /\ trace' = <<<<"start", StartExit(envOk)>>>>
         /\ result' = InsertRes(envOk)

\* card.remove() called by the caller
Remove ==
    /\ Begin("remove") /\ pc' = "idle"
    /\ UNCHANGED <<files, backend>>
    /\ \E envOk \in BOOLEAN :
         /\ RemoveEffect(envOk)
         /\ trace' = <<<<"stop", StopExit(envOk)>>>>
         /\ result' = RemoveRes(envOk)

\* card.softhsm2_conf = conf
SetSofthsm2Conf ==
    /\ Begin("set_conf") /\ pc' = "idle"
    /\ \E exists \in BOOLEAN :
         /\ confExists' = (IF exists THEN TRUE ELSE confExists)
         /\ result' = (IF exists THEN "ok" ELSE "AssertionError")
         /\ trace' = <<<<"assert_conf_path", exists>>>>
    /\ UNCHANGED <<tokensDir, nssdbDir, serviceFile, backend, presence>>

\* ---------------------------------------------------------------- the context manager
\* "with card:" written by the caller
CallScope == Call("scope", "enter")

BodyStartSetUri == IF op = "enroll" THEN "e_seturi" ELSE "body"
\* where the with body starts: enroll()'s body, or the caller's
BodyStart == IF op = "enroll" THEN "e_insert" ELSE "body"

\* __enter__: the assertion, then insert() if the card was built with insert=True.
\* An exception here leaves the with statement before __exit__ is armed.
Enter ==
    /\ pc = "enter"
    /\ IF ~EnterAssert(serviceFile)
       THEN /\ trace' = Append(trace, <<"assert_service", FALSE>>)
            /\ pc' = "idle" /\ result' = "AssertionError"
            /\ UNCHANGED <<presence, entered>>
       ELSE IF EnterCallsInsert(insertFlag)
       THEN \E envOk \in BOOLEAN :
            /\ InsertEffect(envOk)
            /\ trace' = trace \o <<<<"assert_service", TRUE>>,
                                   <<"start", StartExit(envOk)>>>>
            /\ IF InsertRes(envOk) = "ok"
               THEN pc' = BodyStart /\ result' = result /\ entered' = TRUE
               ELSE pc' = "idle" /\ result' = InsertRes(envOk) /\ entered' = FALSE
       ELSE /\ trace' = Append(trace, <<"assert_service", TRUE>>)
            /\ pc' = BodyStart /\ result' = result /\ entered' = TRUE
            /\ UNCHANGED presence
    /\ UNCHANGED <<insertFlag, files, backend, uri, op, exc, exitRemoves,
                   logged, stdout, bodyLeft, history>>

\* a statement of the with body: it goes on at next, or raises e and
\* control passes to __exit__
BodyStep(name, ok, e, next) ==
    /\ trace' = Append(trace, <<name, ok>>)
    /\ IF e = "ok" THEN pc' = next /\ exc' = exc
                   ELSE pc' = "exit" /\ exc' = e
    /\ UNCHANGED <<insertFlag, files, backend, op, result, entered,
                   exitRemoves, logged, history>>

\* the caller's body calls card.insert()
BodyInsert ==
    /\ pc = "body" /\ bodyLeft > 0
    /\ \E envOk \in BOOLEAN :
         /\ InsertEffect(envOk)
         /\ BodyStep("start", StartExit(envOk), InsertRes(envOk), "body")
    /\ bodyLeft' = bodyLeft - 1
    /\ UNCHANGED <<uri, stdout>>

\* the caller's body calls card.remove()
BodyRemove ==
    /\ pc = "body" /\ bodyLeft > 0
    /\ \E envOk \in BOOLEAN :
         /\ RemoveEffect(envOk)
         /\ BodyStep("stop", StopExit(envOk), RemoveRes(envOk), "body")
    /\ bodyLeft' = bodyLeft - 1
    /\ UNCHANGED <<uri, stdout>>

\* the caller's body raises an exception of its own
BodyRaise ==
    /\ pc = "body"
    /\ BodyStep("raise", FALSE, "BodyError", "exit")
    /\ UNCHANGED <<presence, uri, stdout, bodyLeft>>

\* the caller's body runs off its end
BodyEnd ==
    /\ pc = "body"
    /\ pc' = "exit"
    /\ UNCHANGED <<insertFlag, files, backend, presence, uri, op, result,
                   trace, scope, history>>

\* __exit__: log the exception if there is one, then remove().  The method
\* returns None, so a body exception is re-raised by the with statement;
\* an exception of remove() replaces it.
Exit ==
    /\ pc = "exit"
    /\ logged' = (exc # NoExc)
    /\ IF ExitCallsRemove(exc)
       THEN \E envOk \in BOOLEAN :
            /\ RemoveEffect(envOk)
            /\ trace' = Append(trace, <<"stop", StopExit(envOk)>>)
            /\ exitRemoves' = exitRemoves + 1
            /\ result' = (IF RemoveRes(envOk) # "ok" THEN RemoveRes(envOk)
                          ELSE IF exc # NoExc /\ ~ExitReturn THEN exc
                          ELSE "ok")
       ELSE /\ UNCHANGED <<presence, trace, exitRemoves>>
            /\ result' = (IF exc # NoExc /\ ~ExitReturn THEN exc ELSE "ok")
    /\ pc' = "idle"
    /\ stdout' = <<>>
    /\ enrolled' = (enrolled \/ (op = "enroll" /\ result' = "ok"))
    /\ UNCHANGED <<insertFlag, files, backend, uri, op, exc, entered,
                   bodyLeft, created, createFailed>>

\* ---------------------------------------------------------------- enroll()
CallEnroll == Call("enroll", "e_key")

\* pkcs11-tool -w key -y privkey: needs an initialised token to write to
EnrollKey ==
    /\ pc = "e_key"
    /\ \E envOk \in BOOLEAN :
         LET exitOk == envOk /\ tokenLabel
         IN  /\ Step("upload_key", exitOk, Run(exitOk, UploadKeyCheck), "e_cert")
             /\ keyObj' = (keyObj \/ exitOk)
    /\ UNCHANGED <<files, tokenLabel, dbCreated, certObj, presence, history>>

\* pkcs11-tool -w cert -y cert
EnrollCert ==
    /\ pc = "e_cert"
    /\ \E envOk \in BOOLEAN :
         LET exitOk == envOk /\ tokenLabel
         IN  /\ Step("upload_cert", exitOk, Run(exitOk, UploadCertCheck), "enter")
             /\ certObj' = (certObj \/ exitOk)
    /\ UNCHANGED <<files, tokenLabel, dbCreated, keyObj, presence, history>>

\* with self: self.insert()
EnrollInsert ==
    /\ pc = "e_insert"
    /\ \E envOk \in BOOLEAN :
         /\ InsertEffect(envOk)
         /\ BodyStep("start", StartExit(envOk), InsertRes(envOk), "e_seturi")
    /\ UNCHANGED <<uri, stdout, bodyLeft>>

\* with self: self._set_uri()
EnrollSetUri ==
    /\ pc = "e_seturi"
    /\ \E exitOk \in BOOLEAN, out \in Outputs :
         LET r == Run(exitOk, EnumCheck)
             urls == FindAll(out)
         IN  IF r # "ok"
             THEN /\ BodyStep("p11tool", exitOk, r, "exit")
                  /\ UNCHANGED <<uri, stdout>>
             ELSE /\ stdout' = out
                  /\ trace' = trace \o <<<<"p11tool", exitOk>>,
                                         <<"assert_uri", SetUriAssert(Len(urls))>>>>
                  /\ IF SetUriAssert(Len(urls))
                     THEN uri' = urls[1] /\ exc' = exc
                     ELSE uri' = uri /\ exc' = "AssertionError"
                  /\ pc' = "exit"
                  /\ UNCHANGED <<insertFlag, files, backend, op, result, entered,
                                 exitRemoves, logged, history>>
    /\ UNCHANGED <<presence, bodyLeft>>

Next ==
    \/ CallCreate \/ CreateAssert \/ CreateMkdirTokens \/ CreateInitToken
    \/ CreateNssdbDir \/ CreateDb \/ CreateList \/ CreateAdd \/ CreateService
    \/ CreateReload
    \/ Insert \/ Remove \/ SetSofthsm2Conf
    \/ CallScope \/ Enter \/ BodyInsert \/ BodyRemove \/ BodyRaise \/ BodyEnd
    \/ Exit
    \/ CallEnroll \/ EnrollKey \/ EnrollCert \/ EnrollInsert \/ EnrollSetUri

Spec == Init /\ [][Next]_vars
\* ---------------------------------------------------------------- properties
\* the method the caller invoked has ended
Ended(m) == pc = "idle" /\ op = m
\* the method ended after its with block was entered
ScopeEnded == pc = "idle" /\ op \in {"scope", "enroll"} /\ entered
\* a step of that name is in the trace
Did(name) == \E i \in 1..Len(trace) : trace[i][1] = name
\* a step of that name is in the trace and did not succeed
Failed(name) == \E i \in 1..Len(trace) : trace[i] = <<name, FALSE>>
StepNames == [i \in 1..Len(trace) |-> trace[i][1]]
LastStep == trace[Len(trace)]

\* C1: a with block that was entered has had remove() called by __exit__
\* exactly once when it ends, however its body ended and whatever the
\* insert flag is; before __exit__ has run that count is zero.
C1_RemoveOnceAtExit ==
    /\ ScopeEnded => exitRemoves = 1
    /\ pc # "idle" => exitRemoves = 0

C1_Witness ==
    /\ ScopeEnded /\ op = "scope" /\ insertFlag
    /\ exc = "BodyError" /\ exitRemoves = 1

\* C2 as stated: an exception raised in the body of the with block is
\* swallowed; once it is logged and remove() has succeeded the with
\* statement completes normally.
C2_ExceptionSwallowed ==
    (ScopeEnded /\ exc # NoExc /\ LastStep = <<"stop", TRUE>>) => result = "ok"

\* C2 amended: an exception raised in the body of the with block is logged
\* and remove() is called once, and then the with statement raises: the
\* body's exception if remove() succeeded, the exception of remove() if not.
C2_ExceptionPropagates ==
    (ScopeEnded /\ exc # NoExc) =>
        /\ logged /\ exitRemoves = 1 /\ LastStep[1] = "stop"
        /\ result = (IF LastStep[2] THEN exc ELSE "CalledProcessError")

C2_Witness ==
    /\ ScopeEnded /\ op = "scope" /\ exc = "BodyError" /\ logged
    /\ LastStep = <<"stop", TRUE>> /\ result = "BodyError"

\* C3 as stated: when enroll() has returned normally the card is inserted
\* and its service is running.
C3_EnrollLeavesInserted ==
    (Ended("enroll") /\ result = "ok") => (inserted /\ running)

\* C3 amended: when enroll() has returned normally the last presence-changing
\* step it made is the remove() of __exit__: the card is removed and its
\* service is stopped.
C3_EnrollLeavesRemoved ==
    (Ended("enroll") /\ result = "ok") =>
        /\ LastStep = <<"stop", TRUE>>
        /\ ~inserted /\ ~running

C3_Witness ==
    /\ Ended("enroll") /\ result = "ok" /\ Did("start")
    /\ ~inserted /\ ~running

\* C4: once create() and then enroll() have returned normally, uri is set
\* and is not empty: it is a match of the pattern.
C4_UriSetAfterEnroll ==
    (created /\ enrolled) => (uri # NoUri /\ Len(uri) > 0 /\ uri[1] = Prefix)

C4_Witness ==
    /\ Ended("enroll") /\ result = "ok" /\ created
    /\ uri # NoUri /\ Len(uri) > 0

\* C5 as stated: a create() made after a create() that succeeded ends with
\* the rejection of the duplicate label by the token-initialisation command.
C5_SecondCreateBackendRejection ==
    [][(created /\ op = "create" /\ pc # "idle" /\ pc' = "idle") =>
          /\ result' = "CalledProcessError"
          /\ trace'[Len(trace')] = <<"init_token", FALSE>>]_vars

\* C5 amended: a create() made after a create() that succeeded always fails,
\* with the FileExistsError of creating the tokens directory, before the
\* token-initialisation command is run.
C5_SecondCreateFileExists ==
    [][(created /\ op = "create" /\ pc # "idle" /\ pc' = "idle") =>
          /\ result' = "FileExistsError"
          /\ trace' = <<<<"assert_conf", TRUE>>, <<"mkdir_tokens", FALSE>>>>]_vars

C5_Witness ==
    /\ Ended("create") /\ created /\ result = "FileExistsError"
    /\ ~Did("init_token")

C7_SetUriExactlyOne ==
    [][pc = "e_seturi" =>
          LET urls == FindAll(stdout')
          IN  /\ pc' = "exit"
              /\ Len(urls) = 1 => (uri' = urls[1] /\ exc' = NoExc)
              /\ Len(urls) # 1 => (uri' = uri /\ exc' = "AssertionError")]_vars

C7_Witness ==
    /\ op = "enroll" /\ pc = "exit" /\ Len(FindAll(stdout)) = 2
    /\ exc = "AssertionError" /\ uri = NoUri

\* C8 as stated: a card that is inserted has had create() and enroll()
\* succeed before.
C8_InsertedOnlyAfterEnroll == inserted => (created /\ enrolled)

\* C8 amended: a card that is inserted has had create() write its service
\* unit file, after the tokens directory, the token and the database were
\* made; enroll() need not have succeeded.
C8_InsertedOnlyWithUnit ==
    inserted => (serviceFile /\ tokensDir /\ tokenLabel /\ dbCreated)

C8_Witness == inserted /\ running /\ serviceFile /\ ~enrolled

RECURSIVE CountIn(_, _)
CountIn(t, name) ==
    IF t = <<>> THEN 0
    ELSE (IF Head(t)[1] = name THEN 1 ELSE 0) + CountIn(Tail(t), name)

\* C11: entering a with block while the unit file is missing ends at once
\* with AssertionError and no insert(); when the unit file exists __enter__
\* issues one insert() if the card was built with insert=True and none
\* otherwise.
C11_EnterAssertsThenInserts ==
    op = "scope" =>
        /\ (Did("assert_service") /\ ~serviceFile) =>
              /\ trace = <<<<"assert_service", FALSE>>>>
              /\ pc = "idle" /\ result = "AssertionError" /\ ~entered
        /\ (pc = "body" /\ bodyLeft = MaxBody) =>
              /\ serviceFile /\ entered
              /\ trace = (IF insertFlag
                          THEN <<<<"assert_service", TRUE>>, <<"start", TRUE>>>>
                          ELSE <<<<"assert_service", TRUE>>>>)

C11_Witness ==
    /\ op = "scope" /\ pc = "body" /\ bodyLeft = MaxBody /\ insertFlag
    /\ Did("start") /\ inserted

\* C12: insert() and remove() look at nothing but the exit status of their
\* own systemctl command: a call whose command exits zero returns normally
\* whatever the presence was, a with body that is still running has had all
\* its back-to-back calls succeed, and the presence is that of the last call.
C12_PresenceIsLastCall ==
    /\ Ended("insert") => /\ result = "ok" <=> LastStep[2]
                          /\ result = "ok" => (inserted /\ running)
    /\ Ended("remove") => /\ result = "ok" <=> LastStep[2]
                          /\ result = "ok" => (~inserted /\ ~running)
    /\ (op = "scope" /\ pc = "body" /\ Len(trace) > 1) =>
          /\ \A i \in 1..Len(trace) : trace[i][2]
          /\ inserted = (LastStep[1] = "start")
          /\ running = inserted

C12_Witness ==
    /\ op = "scope" /\ pc = "body" /\ created /\ enrolled
    /\ StepNames = <<"assert_service", "start", "stop", "start">>
    /\ inserted /\ running

\* C13: uri is None until create() has succeeded; it is assigned only in a
\* step of an enroll() that has issued both uploads and has the card
\* inserted, its service running.
C13_UriOnlyWhenLive ==
    /\ [](uri # NoUri => created)
    /\ [][uri' # uri =>
            /\ op = "enroll" /\ created
            /\ Did("upload_key") /\ Did("upload_cert")
            /\ inserted /\ running]_vars

C13_Witness ==
    /\ op = "enroll" /\ pc = "exit" /\ uri # NoUri /\ ~enrolled
    /\ created /\ inserted

\* the place of a step in enroll()
Rank(name) ==
    CASE name = "upload_key" -> 1
      [] name = "upload_cert" -> 2
      [] name = "assert_service" -> 3
      [] name = "start" -> 4
      [] name = "p11tool" -> 5
      [] name = "assert_uri" -> 6
      [] name = "stop" -> 7
      [] OTHER -> 0

\* C14: the steps of one enroll() are made in the order key upload,
\* certificate upload, scope entry, insert(), token enumeration, remove();
\* the enumeration directly follows an insert() that succeeded and is made
\* while the service is running, before the remove() of __exit__.
C14_EnrollOrder ==
    op = "enroll" =>
        /\ \A i, j \in 1..Len(trace) :
              i < j => /\ Rank(trace[i][1]) > 0
                       /\ Rank(trace[i][1]) <= Rank(trace[j][1])
                       /\ Rank(trace[i][1]) = Rank(trace[j][1])
                             => trace[i][1] = "start"
        /\ \A i \in 1..Len(trace) :
              trace[i][1] = "p11tool" => (i > 1 /\ trace[i - 1] = <<"start", TRUE>>)
        /\ pc = "e_seturi" => (inserted /\ running /\ ~Did("stop"))
        /\ (pc = "exit" /\ Did("p11tool")) => (running /\ ~Did("stop"))

C14_Witness ==
    /\ Ended("enroll") /\ ~insertFlag
    /\ StepNames = <<"upload_key", "upload_cert", "assert_service", "start",
                     "p11tool", "assert_uri", "stop">>

\* C15: an enroll() whose URI resolution found no match or several does not
\* return normally, and no enroll() returns normally with uri still None.
C15_EnrollReportsUriFailure ==
    Ended("enroll") =>
        /\ Failed("assert_uri") => result \in {"AssertionError", "CalledProcessError"}
        /\ result = "ok" => (uri # NoUri /\ Did("assert_uri") /\ ~Failed("assert_uri"))

C15_Witness ==
    /\ Ended("enroll") /\ Failed("assert_uri") /\ LastStep = <<"stop", TRUE>>
    /\ result = "AssertionError" /\ uri = NoUri

\* C16: a card built without its configuration file exists (the constructor
\* only warns); create() on it ends with AssertionError at its first
\* statement: no directory, token, database or unit file is made and no
\* command is run.
C16_CreateWithoutConfMakesNothing ==
    (Ended("create") /\ ~confExists) =>
        /\ result = "AssertionError"
        /\ trace = <<<<"assert_conf", FALSE>>>>
        /\ ~tokensDir /\ ~tokenLabel /\ ~nssdbDir /\ ~dbCreated /\ ~serviceFile
        /\ ~running /\ uri = NoUri

C16_Witness ==
    /\ Ended("create") /\ ~confExists /\ result = "AssertionError"
    /\ ~tokensDir /\ ~serviceFile

\* what the steps of the running create() made is there
MadeIsPresent ==
    /\ Did("mkdir_tokens") => tokensDir
    /\ <<"init_token", TRUE>> \in {trace[i] : i \in 1..Len(trace)} => tokenLabel
    /\ Did("mkdir_db") => nssdbDir
    /\ <<"modutil_create", TRUE>> \in {trace[i] : i \in 1..Len(trace)} => dbCreated
    /\ Did("write_service") => serviceFile

\* C17 as stated: what the steps of a failing create() made is still there,
\* and once a create() has failed no later create() on the card returns
\* normally.
C17_RetryNeverSucceeds ==
    /\ [](op = "create" => MadeIsPresent)
    /\ [][(createFailed /\ op = "create" /\ pc # "idle" /\ pc' = "idle")
             => result' # "ok"]_vars

\* C17 amended: nothing create() made is ever undone, also when create()
\* fails; a create() called when the tokens directory exists ends with
\* FileExistsError, so a create() that failed after that directory was made
\* cannot be retried; a create() that failed at the configuration assertion
\* made nothing and can be retried.
C17_NoRollbackRetryFailsAtMkdir ==
    /\ [](op = "create" => MadeIsPresent)
    /\ [][/\ tokensDir => tokensDir'
          /\ tokenLabel => tokenLabel'
          /\ nssdbDir => nssdbDir'
          /\ dbCreated => dbCreated'
          /\ serviceFile => serviceFile'
          /\ (pc = "c_mkdir" /\ tokensDir) =>
                (pc' = "idle" /\ result' = "FileExistsError")]_vars

C17_Witness ==
    /\ Ended("create") /\ createFailed /\ ~created
    /\ result = "FileExistsError" /\ tokensDir /\ tokenLabel /\ ~dbCreated

\* C18: when the unit file exists, the tokens directory and the database
\* directory exist, the token is initialised and the database is created;
\* so a with block is entered only on such a card.
C18_UnitImpliesProvisioned ==
    /\ serviceFile => (tokensDir /\ tokenLabel /\ nssdbDir /\ dbCreated)
    /\ entered => (serviceFile /\ tokenLabel /\ dbCreated)

C18_Witness == entered /\ serviceFile /\ tokenLabel /\ dbCreated /\ op = "scope"

\* C19 as stated: an enroll() that returned normally has issued the service
\* start once and the service stop once, whatever the insert flag.
C19_EnrollStartsOnce ==
    (Ended("enroll") /\ result = "ok") =>
        (CountIn(trace, "start") = 1 /\ CountIn(trace, "stop") = 1)

\* C19 amended: an enroll() that returned normally has issued the service
\* stop once, and the service start once on a card built with insert=False,
\* twice on a card built with insert=True.
C19_EnrollStartsOnceOrTwice ==
    (Ended("enroll") /\ result = "ok") =>
        /\ CountIn(trace, "start") = (IF insertFlag THEN 2 ELSE 1)
        /\ CountIn(trace, "stop") = 1

C19_Witness ==
    /\ Ended("enroll") /\ result = "ok" /\ insertFlag
    /\ CountIn(trace, "start") = 2
====
